---- MODULE Spec2Model ----
(***************************************************************************)
(* A model of vg_stub: the Term class (overlink tracking, category links,  *)
(* stub tags), the wikilink helpers it calls, and the Name class           *)
(* (transliteration and sort-key derivation).                              *)
(*                                                                         *)
(* A Python str is a sequence of characters; a character is a one-token    *)
(* TLA+ string.  Characters outside ASCII are written as tokens:           *)
(*   "xi_t"  the Traditional Han character xi (U+6232)                     *)
(*   "xi_s"  its Simplified form (U+620F)                                  *)
(*   "he_k"  the hiragana he (U+3078)                                      *)
(*   "i_g"   Latin small i with grave, "I_g" its capital                   *)
(***************************************************************************)
EXTENDS Integers, Sequences, FiniteSets, TLC

VARIABLES terms, hist, last, given, nm

vars == <<terms, hist, last, given, nm>>

(***************************************************************************)
(* Python values that are not strings.  No character of the model is one   *)
(* of these tokens, so they differ from every str.                         *)
(***************************************************************************)
None == <<"<None>">>
IndexError == <<"<IndexError>">>

\* ----------------------------------------------------------------- bounds
MaxModLen == 1
MaxHeadLen == 1
MaxArticleLen == 1
MaxCatLen == 1
MaxStubLen == 1
MaxSortLen == 1
MaxNameLen == 3
MaxLinksCounted == 2
MaxPieces == 3
MaxPinyinLen == 3
MaxBuildLen == 2
MaxWikiLen == 2
MaxItems == 2

\* All strings over the characters cs of length at most n.
Strings(cs, n) == UNION {[1..k -> cs] : k \in 0..n}

\* ------------------------------------------------------ Python str methods
LowerLetters ==
    <<"a","b","c","d","e","f","g","h","i","j","k","l","m",
      "n","o","p","q","r","s","t","u","v","w","x","y","z","i_g">>
UpperLetters ==
    <<"A","B","C","D","E","F","G","H","I","J","K","L","M",
      "N","O","P","Q","R","S","T","U","V","W","X","Y","Z","I_g">>

IsLowerChar(c) == \E i \in DOMAIN LowerLetters : LowerLetters[i] = c
IsUpperChar(c) == \E i \in DOMAIN UpperLetters : UpperLetters[i] = c
\* str.istitle/isupper/islower: the character has case.
IsCased(c) == IsLowerChar(c) \/ IsUpperChar(c)
IsSpace(c) == c = " "

lower(c) ==
    IF IsUpperChar(c)
    THEN LowerLetters[CHOOSE i \in DOMAIN UpperLetters : UpperLetters[i] = c]
    ELSE c
upper(c) ==
    IF IsLowerChar(c)
    THEN UpperLetters[CHOOSE i \in DOMAIN LowerLetters : LowerLetters[i] = c]
    ELSE c

\* str.replace(old, new) for one-character old and new.
replace(text, old, new) ==
    [i \in DOMAIN text |-> IF text[i] = old THEN new ELSE text[i]]

RECURSIVE lstrip(_, _)
lstrip(text, chars) ==
    IF text # <<>> /\ Head(text) \in chars THEN lstrip(Tail(text), chars) ELSE text

RECURSIVE rstrip(_)
rstrip(text) ==
    IF text # <<>> /\ IsSpace(text[Len(text)])
    THEN rstrip(SubSeq(text, 1, Len(text) - 1))
    ELSE text

\* str.strip(): whitespace removed at both ends.
strip(text) == rstrip(lstrip(text, {" "}))

\* str.capitalize(): first character upper-cased, all others lower-cased.
capitalize(s) ==
    [i \in DOMAIN s |-> IF i = 1 THEN upper(s[i]) ELSE lower(s[i])]

\* str.title(): a cased character is upper-cased when the character before
\* it is not cased (or there is none), and lower-cased when it is.
title_words(s) ==
    [i \in DOMAIN s |->
        IF i = 1 \/ IsSpace(s[i - 1]) THEN upper(s[i]) ELSE lower(s[i])]
title(s) ==
    [i \in DOMAIN s |->
        IF i = 1 \/ ~IsCased(s[i - 1]) THEN upper(s[i]) ELSE lower(s[i])]

\* " ".join(words)
RECURSIVE join(_)
join(words) ==
    IF words = <<>> THEN <<>>
    ELSE IF Len(words) = 1 THEN words[1]
    ELSE words[1] \o <<" ">> \o join(Tail(words))

\* ------------------------------------------------------------- utils.py
\* zhconv(text, "zh-hans"): each Traditional character to its Simplified form.
hans(text) ==
    replace(replace(replace(text, "xi_t", "xi_s"), "you_t", "you_s"),
            "dian_t", "dian_s")
\* zhconv(text, "zh-hant")
hant(text) ==
    replace(replace(replace(text, "xi_s", "xi_t"), "you_s", "you_t"),
            "dian_s", "dian_t")

\* is_same_title.normalize up to the indexing text[0].
stripped(text) == rstrip(lstrip(replace(text, "_", " "), {":", " "}))
\* text[0] raises IndexError on the empty string.
normalize_raises(text) == stripped(text) = <<>>
normalize(text) ==
    LET t == stripped(text) IN hans(<<lower(t[1])>> \o Tail(t))

is_same_title(text1, text2) == normalize(text1) = normalize(text2)

\* str(mwparserfromhell.nodes.Wikilink(title, text))
Wikilink(title_, text) ==
    IF text = None
    THEN <<"[", "[">> \o title_ \o <<"]", "]">>
    ELSE <<"[", "[">> \o title_ \o <<"|">> \o text \o <<"]", "]">>

wikilink(title_, text, force) ==
    IF force THEN Wikilink(title_, text)
    ELSE IF text = None THEN Wikilink(replace(title_, "_", " "), None)
    ELSE IF normalize_raises(title_) \/ normalize_raises(text) THEN IndexError
    ELSE IF is_same_title(title_, text) THEN Wikilink(text, None)
    ELSE Wikilink(title_, text)

\* A link form: what Wikilink renders.
IsLink(s) ==
    /\ Len(s) >= 4
    /\ SubSeq(s, 1, 2) = <<"[", "[">>
    /\ SubSeq(s, Len(s) - 1, Len(s)) = <<"]", "]">>

\* The Chinese punctuation marks, one token each.
mapping(punct) ==
    CASE punct = "period" -> "juhao"
      [] punct = "semicolon" -> "fenhao"
      [] punct = "comma" -> "douhao"
      [] punct = "semi-comma" -> "dunhao"
\* sep.join(items)
RECURSIVE join_by(_, _)
join_by(sep, items) ==
    IF items = <<>> THEN <<>>
    ELSE IF Len(items) = 1 THEN items[1]
    ELSE items[1] \o <<sep>> \o join_by(sep, Tail(items))
\* filter(None, items) keeps the items that are truthy.
IsTruthyItem(item) == item # None /\ item # <<>>
\* chinese_punctation_join(items, punct, start, end)
chinese_punctation_join(items, punct, start, end) ==
    LET start_ == IF start = None THEN <<>> ELSE start
        end_ == IF end = None THEN <<>> ELSE end
        filtered_items == SelectSeq(items, IsTruthyItem)
    IN  start_ \o join_by(mapping(punct), filtered_items) \o end_

\* ------------------------------------------------------- _terms/_term.py
TermIds == {"t1", "t2"}
\* An identity no Term has been constructed for (a Term's modifier is a str).
NoTerm ==
    [modifier |-> None, head |-> None, article |-> None,
     cat |-> None, stub |-> None, _linked |-> FALSE]

\* Term.__init__
Term(modifier, head, article, cat, stub) ==
    [modifier |-> modifier, head |-> head, article |-> article,
     cat |-> cat, stub |-> stub, _linked |-> FALSE]

\* Term.name
name(self) == self.modifier \o self.head

\* GenreTerm.__init__ and YearTerm.__init__: a Term whose modifier is the
\* genre or the year in Traditional Chinese and whose head is the word for
\* "game".
GenreTerm(genre, article, cat, stub) ==
    Term(hant(genre), <<"you_t", "xi_t">>, article, cat, stub)
YearTerm(year, article, cat) ==
    Term(hant(year), <<"you_t", "xi_t">>, article, cat, None)
\* The module-level registries: data["rpg"] and years["1983"].
data_rpg ==
    GenreTerm(<<"jue", "se", "ban", "yan">>,
              <<"dian_t", "zi", "jue", "se", "ban", "yan", "you_t", "xi_t">>,
              <<"dian_t", "zi", "jue", "se", "ban", "yan", "you_t", "xi_t">>,
              <<"r", "p", "g", "-", "v", "i", "d", "e", "o", "g", "a", "m", "e",
                "-", "s", "t", "u", "b">>)
years_1983 ==
    YearTerm(<<"1", "9", "8", "3", "nian">>,
             <<"1", "9", "8", "3", "nian", "dian_t", "zi", "you_t", "xi_t", "jie">>,
             <<"1", "9", "8", "3", "nian", "dian_s", "zi", "you_s", "xi_s">>)

\* Term.text, its local: display = self.name if full else self.modifier
display(self, full) == IF full THEN name(self) ELSE self.modifier

\* Term.text: the value returned (or the exception raised) and the object after.
\* The flag is set before wikilink() is called, so it stays set when that raises.
text_relinks(self, full, link) ==
    IF ~link \/ self.article = None
    THEN [ret |-> display(self, full), self |-> self]
    ELSE IF self._linked
    THEN [ret |-> display(self, full), self |-> [self EXCEPT !._linked = FALSE]]
    ELSE [ret |-> wikilink(self.article, display(self, full), FALSE),
          self |-> [self EXCEPT !._linked = TRUE]]
text_always_marks(self, full, link) ==
    IF ~link \/ self._linked
    THEN [ret |-> display(self, full), self |-> self]
    ELSE IF self.article = None
    THEN [ret |-> display(self, full), self |-> [self EXCEPT !._linked = TRUE]]
    ELSE [ret |-> wikilink(self.article, display(self, full), FALSE),
          self |-> [self EXCEPT !._linked = TRUE]]
text(self, full, link) ==
    IF ~link THEN [ret |-> display(self, full), self |-> self]
    ELSE IF self.article = None THEN [ret |-> display(self, full), self |-> self]
    ELSE IF self._linked THEN [ret |-> display(self, full), self |-> self]
    ELSE [ret |-> wikilink(self.article, display(self, full), FALSE),
          self |-> [self EXCEPT !._linked = TRUE]]

CategoryPrefix == <<"C", "a", "t", "e", "g", "o", "r", "y", ":">>

\* Term.cat_link
cat_link(self, sort) ==
    IF self.cat = None THEN None
    ELSE wikilink(CategoryPrefix \o self.cat, sort, FALSE)

\* Term.stub_tag
stub_tag_single_brace(self) ==
    IF self.stub = None THEN None
    ELSE <<"{">> \o self.stub \o <<"}">>
stub_tag(self) ==
    IF self.stub = None THEN None
    ELSE <<"{", "{">> \o self.stub \o <<"}", "}">>

\* Term.__str__
str(self) == name(self)

\* --------------------------------------------------------------- _name.py
ITALIC_LANGS == {<<"e", "n">>}
ZH == <<"z", "h">>
JA == <<"j", "a">>

IsHan(c) == c \in {"xi_t", "xi_s"}

\* The longest prefix of txt whose characters all satisfy or all fail IsHan,
\* as pypinyin keeps a run of non-Han characters in one piece.
RECURSIVE NonHanRun(_)
NonHanRun(txt) ==
    IF txt = <<>> \/ IsHan(Head(txt)) THEN <<>>
    ELSE <<Head(txt)>> \o NonHanRun(Tail(txt))

\* pypinyin's reading of one Han character, with or without the tone mark.
Syllable(c, tone) == IF tone THEN <<"x", "i_g">> ELSE <<"x", "i">>

\* pypinyin.pinyin(text) (tone marks; first reading of each character) and
\* pypinyin.lazy_pinyin(text) (no tone marks): one syllable for each Han
\* character, and each run of other characters unchanged.
RECURSIVE pinyin_lazy_skips(_, _)
pinyin_lazy_skips(txt, tone) ==
    IF txt = <<>> THEN <<>>
    ELSE IF IsHan(Head(txt))
    THEN <<Syllable(Head(txt), tone)>> \o pinyin_lazy_skips(Tail(txt), tone)
    ELSE LET run == NonHanRun(txt) IN
         (IF tone THEN <<run>> ELSE <<>>)
             \o pinyin_lazy_skips(SubSeq(txt, Len(run) + 1, Len(txt)), tone)
RECURSIVE pinyin(_, _)
pinyin(txt, tone) ==
    IF txt = <<>> THEN <<>>
    ELSE IF IsHan(Head(txt))
    THEN <<Syllable(Head(txt), tone)>> \o pinyin(Tail(txt), tone)
    ELSE LET run == NonHanRun(txt) IN
         <<run>> \o pinyin(SubSeq(txt, Len(run) + 1, Len(txt)), tone)

to_pinyin(txt, tone) ==
    LET syllables == pinyin(txt, tone) IN
    join([i \in DOMAIN syllables |-> capitalize(syllables[i])])

\* pykakasi segments the text into words; here a word is a longest run of
\* characters of one class.
CharClass(c) ==
    IF c = "he_k" THEN "kana"
    ELSE IF IsHan(c) THEN "kanji"
    ELSE IF IsSpace(c) THEN "space"
    ELSE "other"

RECURSIVE ClassRun(_, _)
ClassRun(txt, class) ==
    IF txt = <<>> \/ CharClass(Head(txt)) # class THEN <<>>
    ELSE <<Head(txt)>> \o ClassRun(Tail(txt), class)

\* The Hepburn romanization of one word: kana and kanji by their reading,
\* every other character unchanged.
RECURSIVE Hepburn(_)
Hepburn(word) ==
    IF word = <<>> THEN <<>>
    ELSE (IF Head(word) = "he_k" THEN <<"h", "e">>
          ELSE IF IsHan(Head(word)) THEN <<"g", "i">>
          ELSE <<Head(word)>>) \o Hepburn(Tail(word))

\* [word["hepburn"] for word in kakasi().convert(text)]
RECURSIVE kakasi_convert(_)
kakasi_convert(txt) ==
    IF txt = <<>> THEN <<>>
    ELSE LET run == ClassRun(txt, CharClass(Head(txt))) IN
         <<Hepburn(run)>> \o kakasi_convert(SubSeq(txt, Len(run) + 1, Len(txt)))

\* modified_hepburn_mapping.get(hepburn, hepburn.capitalize())
modified_hepburn_mapping_lowered(hepburn) ==
    LET key == [i \in DOMAIN hepburn |-> lower(hepburn[i])] IN
    IF key = <<"o", "b", "u">> THEN <<"o", "b", "u">>
    ELSE IF key = <<"h", "e">> THEN <<"e">>
    ELSE IF key = <<"g", "a">> THEN <<"g", "a">>
    ELSE IF key = <<"n", "o">> THEN <<"n", "o">>
    ELSE IF key = <<"w", "o">> THEN <<"o">>
    ELSE IF key = <<"t", "o">> THEN <<"t", "o">>
    ELSE IF key = <<"h", "a">> THEN <<"w", "a">>
    ELSE capitalize(hepburn)
modified_hepburn_mapping(hepburn) ==
    IF hepburn = <<"o", "b", "u">> THEN <<"o", "b", "u">>
    ELSE IF hepburn = <<"h", "e">> THEN <<"e">>
    ELSE IF hepburn = <<"g", "a">> THEN <<"g", "a">>
    ELSE IF hepburn = <<"n", "o">> THEN <<"n", "o">>
    ELSE IF hepburn = <<"w", "o">> THEN <<"o">>
    ELSE IF hepburn = <<"t", "o">> THEN <<"t", "o">>
    ELSE IF hepburn = <<"h", "a">> THEN <<"w", "a">>
    ELSE capitalize(hepburn)

\* The loop of to_romaji over the words: blank words are skipped.
RECURSIVE result_words_keeps_blank(_)
result_words_keeps_blank(words) ==
    IF words = <<>> THEN <<>>
    ELSE <<modified_hepburn_mapping(strip(Head(words)))>>
             \o result_words_keeps_blank(Tail(words))
RECURSIVE result_words(_)
result_words(words) ==
    IF words = <<>> THEN <<>>
    ELSE LET hepburn == strip(Head(words)) IN
         (IF hepburn = <<>> THEN <<>>
          ELSE <<modified_hepburn_mapping(hepburn)>>) \o result_words(Tail(words))

to_romaji(txt) == join(result_words(kakasi_convert(txt)))

\* Python truthiness of a str | None argument.
Truthy(value) == value # None /\ value # <<>>

\* Name._translit
_translit_keeps_empty(self, value) ==
    IF value # None THEN value
    ELSE IF self.lang = ZH THEN to_pinyin(self.name, TRUE)
    ELSE IF self.lang = JA THEN to_romaji(self.name)
    ELSE self.name
_translit(self, value) ==
    IF Truthy(value) THEN value
    ELSE IF self.lang = ZH THEN to_pinyin(self.name, TRUE)
    ELSE IF self.lang = JA THEN to_romaji(self.name)
    ELSE self.name

\* Name._sortkey
_sortkey_from_translit(self, value) ==
    IF Truthy(value) THEN value
    ELSE IF self.lang = ZH THEN to_pinyin(self.name, FALSE)
    ELSE self.translit
_sortkey(self, value) ==
    IF Truthy(value) THEN value
    ELSE IF self.lang = ZH THEN to_pinyin(self.name, FALSE)
    ELSE IF self.lang = JA THEN title(to_romaji(self.name))
    ELSE title(self.translit)

\* Name.__init__: the fields are assigned in this order, so _sortkey reads
\* the translit that _translit has just produced.
Name__init__(lang, name_, translit, sortkey, lit) ==
    LET s1 == [lang |-> lang, name |-> name_] IN
    LET s2 == [lang |-> lang, name |-> name_, translit |-> _translit(s1, translit)] IN
    [lang |-> lang, name |-> name_, translit |-> s2.translit,
     sortkey |-> _sortkey(s2, sortkey), lit |-> lit]

\* Name.italic
italic_all_foreign(self) == self.lang # ZH
italic(self) == self.lang \in ITALIC_LANGS

\* Name.efn: str of the langx Template inside {{efn|...}}.
efn(self) ==
    IF self.lang = ZH THEN None
    ELSE <<"{", "{", "e", "f", "n", "|", "{", "{", "l", "a", "n", "g", "x">>
         \o <<"|">> \o self.lang \o <<"|">> \o self.name
         \o (IF self.translit # self.name
             THEN <<"|", "t", "r", "a", "n", "s", "l", "i", "t", "=">> \o self.translit
             ELSE <<>>)
         \o (IF Truthy(self.lit)
             THEN <<"|", "l", "i", "t", "=">> \o self.lit
             ELSE <<>>)
         \o (IF italic(self)
             THEN <<"|", "i", "t", "a", "l", "i", "c", "=", "y", "e", "s">>
             ELSE <<>>)
         \o <<"}", "}", "}", "}">>


\* ------------------------------------------------------------- text.py
TypeError == <<"<TypeError>">>
\* An argument that is None, a str or a Name.
NoneArg == [kind |-> "None"]
StrArg(s) == [kind |-> "str", val |-> s]
NameArg(n) == [kind |-> "Name", val |-> n]
\* bool(arg): None and '' are falsy; a Name defines neither __bool__ nor
\* __len__ and is truthy.
Bool(arg) ==
    CASE arg.kind = "None" -> FALSE
      [] arg.kind = "str" -> arg.val # <<>>
      [] arg.kind = "Name" -> TRUE
\* value(...): a call of the value read from a property, a str or None.
Call(value) == TypeError

PAGENAME ==
    <<"{", "{", "s", "u", "b", "s", "t", ":", "P", "A", "G", "E", "N", "A", "M", "E", "}", "}">>
\* build_names(chinese, foreign)
build_names(chinese, foreign) ==
    LET main_name ==
            IF Bool(chinese)
            THEN (IF chinese.kind = "str" THEN chinese.val ELSE chinese.val.name)
            ELSE IF Bool(foreign)
            THEN (IF Truthy(foreign.val.translit) THEN foreign.val.translit
                  ELSE foreign.val.name)
            ELSE PAGENAME
        main_name_title_cased == title(main_name)
        efn_ ==
            IF foreign.kind = "None" \/ title(foreign.val.name) = main_name_title_cased
            THEN <<>>
            ELSE IF title(foreign.val.translit) = main_name_title_cased
            THEN Call(efn(foreign.val))
            ELSE Call(efn(foreign.val))
    IN  IF efn_ = TypeError THEN TypeError
        ELSE <<"shu_l", "'", "'", "'">> \o main_name \o <<"'", "'", "'", "shu_r">>
             \o (IF efn_ # <<>> THEN <<"paren_l">> \o efn_ \o <<"paren_r">>
                 ELSE <<>>)

\* ------------------------------------------------ the Term state machine
ModChars == {"a", "_"}
HeadChars == {"xi_t"}
ArticleChars == {"A", "_", "xi_s"}
CatChars == {"c"}
StubChars == {"s"}
SortChars == {"*", " "}

Modifiers == Strings(ModChars, MaxModLen)
Heads == Strings(HeadChars, MaxHeadLen)
Articles == {None} \cup Strings(ArticleChars, MaxArticleLen)
Cats == {None} \cup Strings(CatChars, MaxCatLen)
Stubs == {None} \cup Strings(StubChars, MaxStubLen)
Sorts == {None} \cup Strings(SortChars, MaxSortLen)

\* What the calls made so far on a term were: whether text(link=True) was
\* ever called, and how many calls returned a link (counted up to
\* MaxLinksCounted).
NoHist == [req |-> FALSE, docreq |-> FALSE, links |-> 0]
NoCall ==
    [op |-> "none", id |-> "t1", full |-> FALSE, link |-> FALSE,
     sort |-> None, pre |-> NoTerm, first |-> FALSE, firstInDoc |-> FALSE,
     ret |-> None]
\* No Name is being constructed (given) or has been constructed (nm).
NoArgs ==
    [lang |-> None, name |-> None, translit |-> None, sortkey |-> None,
     lit |-> None]
NoName ==
    [lang |-> None, name |-> None, translit |-> None, sortkey |-> None,
     lit |-> None]

Min(a, b) == IF a < b THEN a ELSE b

\* One Term, constructed from any arguments; no call made on it yet.
InitTerm ==
    /\ \E m \in Modifiers, h \in Heads, a \in Articles, c \in Cats, s \in Stubs :
          terms = [id \in TermIds |->
                      IF id = "t1" THEN Term(m, h, a, c, s) ELSE NoTerm]
    /\ hist = [id \in TermIds |-> NoHist]
    /\ last = NoCall
    /\ given = NoArgs
    /\ nm = NoName

\* A call of terms[id].text(full=full, link=link).
TextCall_shared_flag(id, full, link) ==
    /\ terms[id] # NoTerm
    /\ LET r == text(terms[id], full, link) IN
          /\ terms' = [b \in TermIds |->
                IF b = id THEN r.self
                ELSE IF terms[b].article = terms[id].article
                THEN [terms[b] EXCEPT !._linked = r.self._linked]
                ELSE terms[b]]
          /\ hist' = [hist EXCEPT
                ![id].req = @ \/ link,
                ![id].docreq = @ \/ link,
                ![id].links = IF IsLink(r.ret)
                              THEN Min(@ + 1, MaxLinksCounted) ELSE @]
          /\ last' = [op |-> "text", id |-> id, full |-> full, link |-> link,
                      sort |-> None, pre |-> terms[id],
                      first |-> link /\ ~hist[id].req,
                      firstInDoc |-> link /\ ~hist[id].docreq, ret |-> r.ret]
    /\ UNCHANGED <<given, nm>>
TextCall(id, full, link) ==
    /\ terms[id] # NoTerm
    /\ LET r == text(terms[id], full, link) IN
          /\ terms' = [terms EXCEPT ![id] = r.self]
          /\ hist' = [hist EXCEPT
                ![id].req = @ \/ link,
                ![id].docreq = @ \/ link,
                ![id].links = IF IsLink(r.ret)
                              THEN Min(@ + 1, MaxLinksCounted) ELSE @]
          /\ last' = [op |-> "text", id |-> id, full |-> full, link |-> link,
                      sort |-> None, pre |-> terms[id],
                      first |-> link /\ ~hist[id].req,
                      firstInDoc |-> link /\ ~hist[id].docreq, ret |-> r.ret]
    /\ UNCHANGED <<given, nm>>

\* A call of terms[id].cat_link(sort).
CatLinkCall(id, sort) ==
    /\ terms[id] # NoTerm
    /\ last' = [op |-> "cat_link", id |-> id, full |-> FALSE, link |-> FALSE,
                sort |-> sort, pre |-> terms[id], first |-> FALSE,
                firstInDoc |-> FALSE,
                ret |-> cat_link(terms[id], sort)]
    /\ UNCHANGED <<terms, hist, given, nm>>

\* A call of terms[id].stub_tag().
StubTagCall(id) ==
    /\ terms[id] # NoTerm
    /\ last' = [op |-> "stub_tag", id |-> id, full |-> FALSE, link |-> FALSE,
                sort |-> None, pre |-> terms[id], first |-> FALSE,
                firstInDoc |-> FALSE,
                ret |-> stub_tag(terms[id])]
    /\ UNCHANGED <<terms, hist, given, nm>>

\* A read of terms[id].name.
NameCall(id) ==
    /\ terms[id] # NoTerm
    /\ last' = [op |-> "name", id |-> id, full |-> FALSE, link |-> FALSE,
                sort |-> None, pre |-> terms[id], first |-> FALSE,
                firstInDoc |-> FALSE,
                ret |-> name(terms[id])]
    /\ UNCHANGED <<terms, hist, given, nm>>

\* A call of str(terms[id]).
StrCall(id) ==
    /\ terms[id] # NoTerm
    /\ last' = [op |-> "str", id |-> id, full |-> FALSE, link |-> FALSE,
                sort |-> None, pre |-> terms[id], first |-> FALSE,
                firstInDoc |-> FALSE,
                ret |-> str(terms[id])]
    /\ UNCHANGED <<terms, hist, given, nm>>

NextTerm ==
    \E id \in TermIds :
        \/ \E full \in BOOLEAN, link \in BOOLEAN : TextCall(id, full, link)
        \/ \E sort \in Sorts : CatLinkCall(id, sort)
        \/ StubTagCall(id)
        \/ NameCall(id)
        \/ StrCall(id)

SpecTerm == InitTerm /\ [][NextTerm]_vars

\* ------------------------------------------------------------ two terms
\* Two terms of any of the three classes; their articles may be the same.
TwoTermArticles == {None, <<"A">>, <<"_">>}
Constructed ==
    {Term(<<"a">>, <<"xi_t">>, a, <<"c">>, <<"s">>) : a \in TwoTermArticles}
        \cup {GenreTerm(<<"xi_s">>, a, <<"c">>, <<"s">>) : a \in TwoTermArticles}
        \cup {YearTerm(<<"1">>, a, <<"c">>) : a \in TwoTermArticles}
InitTwoTerms ==
    /\ terms \in [TermIds -> Constructed]
    /\ hist = [id \in TermIds |-> NoHist]
    /\ last = NoCall
    /\ given = NoArgs
    /\ nm = NoName

SpecTwoTerms == InitTwoTerms /\ [][NextTerm]_vars

\* ------------------------------------------------- the registries' terms
\* The process after import: the registries hold their terms, built once.
InitRegistry ==
    /\ terms = [id \in TermIds |-> IF id = "t1" THEN data_rpg ELSE years_1983]
    /\ hist = [id \in TermIds |-> NoHist]
    /\ last = NoCall
    /\ given = NoArgs
    /\ nm = NoName

\* The process starts to build another document. The registries are module
\* attributes: their terms are the objects of the documents before.
NewDocument ==
    /\ hist' = [id \in TermIds |-> [hist[id] EXCEPT !.docreq = FALSE]]
    /\ last' = [NoCall EXCEPT !.op = "new_document"]
    /\ UNCHANGED <<terms, given, nm>>

NextRegistry == NextTerm \/ NewDocument

SpecRegistry == InitRegistry /\ [][NextRegistry]_vars

\* ------------------------------------------------ the Name state machine
NameChars == {"a", "B", " ", "'", "xi_t", "he_k"}
Langs == {ZH, JA, <<"e", "n">>, <<"k", "o">>}
Names == Strings(NameChars, MaxNameLen)
\* The optional arguments of Name(): absent, empty, or given.
Translits == {None, <<>>, <<"o", "k">>}
Sortkeys == {None, <<>>, <<"k">>}
Lits == {None, <<>>, <<"l">>}

\* The arguments of a call Name(lang, name, translit, sortkey, lit) about
\* to be made.
InitName ==
    /\ \E l \in Langs, n \in Names, t \in Translits, k \in Sortkeys, x \in Lits :
          given = [lang |-> l, name |-> n, translit |-> t, sortkey |-> k,
                   lit |-> x]
    /\ nm = NoName
    /\ last = NoCall
    /\ terms = [id \in TermIds |-> NoTerm]
    /\ hist = [id \in TermIds |-> NoHist]

\* Name.__init__ runs.
NameInit ==
    /\ nm = NoName
    /\ nm' = Name__init__(given.lang, given.name, given.translit,
                          given.sortkey, given.lit)
    /\ last' = [NoCall EXCEPT !.op = "Name"]
    /\ UNCHANGED <<terms, hist, given>>

\* A read of nm.italic.
ItalicRead ==
    /\ nm # NoName
    /\ last' = [NoCall EXCEPT !.op = "italic", !.ret = italic(nm)]
    /\ UNCHANGED <<terms, hist, given, nm>>

\* A read of nm.efn.
EfnRead_drops_translit ==
    /\ nm # NoName
    /\ last' = [NoCall EXCEPT !.op = "efn", !.ret = efn(nm)]
    /\ nm' = [nm EXCEPT !.translit = nm.name]
    /\ UNCHANGED <<terms, hist, given>>
EfnRead ==
    /\ nm # NoName
    /\ last' = [NoCall EXCEPT !.op = "efn", !.ret = efn(nm)]
    /\ UNCHANGED <<terms, hist, given, nm>>

NextName == NameInit \/ ItalicRead \/ EfnRead

SpecName == InitName /\ [][NextName]_vars

\* ---------------------------------------------------- properties of Term

\* C1: once a Term's _linked flag is true, no call of text(), cat_link(),
\* stub_tag(), name or str() on it makes it false again.
LinkedStaysLinked ==
    [][\A id \in TermIds : terms[id]._linked => terms'[id]._linked]_vars
\* A text(link=True) call has acted on a Term that was already linked.
LinkedStaysLinkedWitness ==
    /\ last.op = "text" /\ last.link
    /\ last.pre.article # None /\ last.pre._linked
    /\ terms[last.id]._linked

\* C2: on a Term with an article, the first text() call with link=True
\* returns the link form, every other text() call returns the plain display
\* text, and so at most one call returns a link.
FirstLinkCallReturnsLink ==
    (last.op = "text" /\ last.pre.article # None) =>
        /\ IF last.first
           THEN IsLink(last.ret)
           ELSE last.ret = display(last.pre, last.full)
        /\ hist[last.id].links <= 1

\* C3: text() with link=False, or on a Term without article, or on a Term
\* already linked, returns modifier+head (full) or modifier (not full) and
\* leaves every field of the Term, the linked flag included, as it was.
PlainTextLeavesTermAlone ==
    (/\ last.op = "text"
     /\ (~last.link \/ last.pre.article = None \/ last.pre._linked)) =>
        /\ last.ret = IF last.full
                      THEN last.pre.modifier \o last.pre.head
                      ELSE last.pre.modifier
        /\ terms[last.id] = last.pre
\* A linking call on a Term without article, after which the Term is unlinked.
PlainTextLeavesTermAloneWitness ==
    /\ last.op = "text" /\ last.link /\ ~last.full
    /\ last.pre.article = None
    /\ last.pre.modifier # <<>> /\ last.pre.head # <<>>
    /\ ~terms[last.id]._linked

\* C4: cat_link(sort) returns None iff cat is None; otherwise it returns the
\* category link on "Category:" + cat, with the sort key after a bar when one
\* is given; the Term is unchanged.
CatLinkCarriesSortKey ==
    last.op = "cat_link" =>
        /\ (last.ret = None) <=> (last.pre.cat = None)
        /\ last.pre.cat # None =>
              last.ret = IF last.sort = None
                         THEN <<"[", "[">> \o CategoryPrefix \o last.pre.cat
                                  \o <<"]", "]">>
                         ELSE <<"[", "[">> \o CategoryPrefix \o last.pre.cat
                                  \o <<"|">> \o last.sort \o <<"]", "]">>
        /\ terms[last.id] = last.pre

\* C5: stub_tag() returns None iff stub is None; otherwise it returns
\* "{{" + stub + "}}"; the linked flag is unchanged.
StubTagEmbedsStub ==
    last.op = "stub_tag" =>
        /\ (last.ret = None) <=> (last.pre.stub = None)
        /\ last.pre.stub # None =>
              last.ret = <<"{", "{">> \o last.pre.stub \o <<"}", "}">>
        /\ terms[last.id]._linked = last.pre._linked
\* stub_tag() has returned a tag on a Term that is linked.
StubTagEmbedsStubWitness ==
    /\ last.op = "stub_tag"
    /\ last.pre.stub # None /\ last.pre.stub # <<>>
    /\ last.pre._linked /\ terms[last.id]._linked
    /\ last.ret # None

\* ---------------------------------------------------- properties of Name

\* C6: translit is the translit argument when that is given and non-empty;
\* otherwise toned Pinyin of name for "zh", romaji of name for "ja", and name
\* itself for any other lang.
TranslitDerivation ==
    nm # NoName =>
        /\ nm.translit =
              IF given.translit # None /\ given.translit # <<>>
              THEN given.translit
              ELSE IF given.lang = ZH THEN to_pinyin(given.name, TRUE)
              ELSE IF given.lang = JA THEN to_romaji(given.name)
              ELSE given.name
        /\ (given.lang \notin {ZH, JA} /\ given.translit = None) =>
              nm.translit = given.name
\* A Japanese Name without override whose romaji differs from its name.
TranslitDerivationWitness ==
    /\ nm # NoName /\ given.lang = JA /\ given.translit = None
    /\ nm.translit # <<>> /\ nm.translit # nm.name

\* C7: sortkey is the sortkey argument when that is given and non-empty;
\* otherwise toneless Pinyin of name for "zh", the title-cased romaji of name
\* for "ja" (whatever translit is), and the title-cased translit for any
\* other lang.
SortkeyDerivation ==
    nm # NoName =>
        nm.sortkey =
            IF given.sortkey # None /\ given.sortkey # <<>>
            THEN given.sortkey
            ELSE IF given.lang = ZH THEN to_pinyin(given.name, FALSE)
            ELSE IF given.lang = JA THEN title(to_romaji(given.name))
            ELSE title(nm.translit)
\* A Japanese Name with a translit override: its sortkey comes from the name.
SortkeyDerivationWitness ==
    /\ nm # NoName /\ given.lang = JA
    /\ given.translit = <<"o", "k">> /\ given.sortkey = None
    /\ nm.translit = <<"o", "k">>
    /\ nm.sortkey # <<>> /\ nm.sortkey # title(nm.translit)

\* C8: an empty-string translit or sortkey argument gives the translit and
\* sortkey that None in its place gives.
EmptyOverrideIsNoOverride ==
    nm # NoName =>
        /\ given.translit = <<>> =>
              LET other == Name__init__(given.lang, given.name, None,
                                        given.sortkey, given.lit) IN
              nm.translit = other.translit /\ nm.sortkey = other.sortkey
        /\ given.sortkey = <<>> =>
              LET other == Name__init__(given.lang, given.name,
                                        given.translit, None, given.lit) IN
              nm.translit = other.translit /\ nm.sortkey = other.sortkey
\* A Name constructed with both overrides empty, and derived fields.
EmptyOverrideIsNoOverrideWitness ==
    /\ nm # NoName
    /\ given.translit = <<>> /\ given.sortkey = <<>>
    /\ nm.translit # <<>> /\ nm.sortkey # <<>>

\* C9: translit and sortkey of every constructed Name are non-empty.
NameFieldsNonEmpty ==
    nm # NoName => nm.translit # <<>> /\ nm.sortkey # <<>>
\* C9, amended: they are non-empty when name is non-empty and, for "ja", the
\* name has a word whose romanization is not blank.
NameFieldsNonEmptyForNamed ==
    (/\ nm # NoName
     /\ given.name # <<>>
     /\ given.lang = JA => to_romaji(given.name) # <<>>) =>
        nm.translit # <<>> /\ nm.sortkey # <<>>
\* A Name with a non-empty name and empty-string overrides.
NameFieldsNonEmptyForNamedWitness ==
    /\ nm # NoName /\ given.name # <<>>
    /\ given.lang \notin {ZH, JA}
    /\ given.translit = <<>> /\ given.sortkey = <<>>
    /\ nm.translit = given.name

\* The string a derived sort key is the title-casing of.
TitleCased ==
    IF given.lang = JA THEN to_romaji(given.name) ELSE nm.translit
SortkeyIsTitleCased ==
    /\ nm # NoName
    /\ given.lang # ZH
    /\ given.sortkey = None \/ given.sortkey = <<>>

\* Whether position i of s holds the first letter of a whitespace-delimited
\* word: no letter lies between the start of the word and i.
FirstLetterOfWord(s, i) ==
    /\ IsCased(s[i])
    /\ \A j \in 1..(i - 1) :
          IsCased(s[j]) => \E k \in (j + 1)..(i - 1) : IsSpace(s[k])

\* C10: the title-casing of a derived sort key capitalizes the first letter
\* of every whitespace-delimited word and lower-cases the rest of the word.
SortkeyCapitalizesWords ==
    SortkeyIsTitleCased =>
        /\ Len(nm.sortkey) = Len(TitleCased)
        /\ \A i \in DOMAIN TitleCased :
              nm.sortkey[i] = IF FirstLetterOfWord(TitleCased, i)
                              THEN upper(TitleCased[i])
                              ELSE lower(TitleCased[i])
\* C10, amended: it capitalizes every letter that does not directly follow
\* a letter (at the start, after whitespace, a hyphen, an apostrophe or a
\* digit) and lower-cases every letter that directly follows a letter.
SortkeyCapitalizesAfterNonLetters ==
    SortkeyIsTitleCased =>
        /\ Len(nm.sortkey) = Len(TitleCased)
        /\ \A i \in DOMAIN TitleCased :
              nm.sortkey[i] = IF i = 1 \/ ~IsCased(TitleCased[i - 1])
                              THEN upper(TitleCased[i])
                              ELSE lower(TitleCased[i])
\* A sort key derived from a word with an apostrophe between two letters,
\* and one derived from a word with a capital after its first letter.
SortkeyCapitalizesAfterNonLettersWitness ==
    /\ SortkeyIsTitleCased
    /\ \/ TitleCased = <<"a", "'", "a">> /\ nm.sortkey = <<"A", "'", "A">>
       \/ TitleCased = <<"a", "B", "B">> /\ nm.sortkey = <<"A", "b", "b">>

\* ------------------------------------------- calls of the pure functions
\* The text given to to_romaji: up to MaxPieces pieces, each a romanized
\* word (the keys of the particle table among them), a kana or a space.
RomajiPieces ==
    {<<"o", "b", "u">>, <<"h", "e">>, <<"g", "a">>, <<"n", "o">>,
     <<"w", "o">>, <<"t", "o">>, <<"h", "a">>, <<"H", "e">>, <<"a", "B">>,
     <<"he_k">>, <<" ">>}
RECURSIVE Flatten(_)
Flatten(pieces) ==
    IF pieces = <<>> THEN <<>> ELSE Head(pieces) \o Flatten(Tail(pieces))
RomajiTexts == {Flatten(ps) : ps \in Strings(RomajiPieces, MaxPieces)}

PinyinChars == {"xi_t", "a", "B", " "}
PinyinTexts == Strings(PinyinChars, MaxPinyinLen)

RomajiCalls == {[fn |-> "to_romaji", text |-> t] : t \in RomajiTexts}
PinyinCalls ==
    {[fn |-> "to_pinyin", text |-> t, tone |-> b] :
        t \in PinyinTexts, b \in BOOLEAN}

BuildChars == {"a", "B"}
BuildStrings == Strings(BuildChars, MaxBuildLen)
ChineseArgs ==
    {NoneArg} \cup {StrArg(s) : s \in BuildStrings}
        \cup {NameArg(Name__init__(ZH, <<"xi_t">>, None, None, None))}
ForeignArgs ==
    {NoneArg} \cup
    {NameArg(Name__init__(l, n, t, None, None)) :
        l \in {JA, <<"e", "n">>}, n \in BuildStrings \cup {<<"he_k">>},
        t \in {None} \cup BuildStrings}
BuildNamesCalls ==
    {[fn |-> "build_names", chinese |-> c, foreign |-> f] :
        c \in ChineseArgs, f \in ForeignArgs}

WikiChars == {"A", "a", "_", "xi_t", "xi_s"}
WikiTitles == Strings(WikiChars, MaxWikiLen)
WikilinkCalls ==
    {[fn |-> "wikilink", title |-> t, text |-> x, force |-> f] :
        t \in WikiTitles, x \in {None} \cup WikiTitles, f \in BOOLEAN}

Items == {None, <<>>, <<"p">>, <<"q">>}
Puncts == {"period", "semicolon", "comma", "semi-comma"}
JoinCalls ==
    {[fn |-> "chinese_punctation_join", items |-> i, punct |-> p,
      start |-> s, end |-> e] :
        i \in Strings(Items, MaxItems), p \in Puncts,
        s \in {None, <<>>, <<"s">>}, e \in {None, <<"e">>}}

\* A call of one of the module-level functions, about to be made.
InitUtils ==
    /\ given \in RomajiCalls \cup PinyinCalls \cup BuildNamesCalls
                 \cup WikilinkCalls \cup JoinCalls
    /\ last = NoCall
    /\ nm = NoName
    /\ terms = [id \in TermIds |-> NoTerm]
    /\ hist = [id \in TermIds |-> NoHist]

\* to_romaji(text) runs.
ToRomaji ==
    /\ given.fn = "to_romaji" /\ last = NoCall
    /\ last' = [NoCall EXCEPT !.op = "to_romaji", !.ret = to_romaji(given.text)]
    /\ UNCHANGED <<terms, hist, given, nm>>

\* to_pinyin(text, tone=tone) runs.
ToPinyin ==
    /\ given.fn = "to_pinyin" /\ last = NoCall
    /\ last' = [NoCall EXCEPT !.op = "to_pinyin",
                              !.ret = to_pinyin(given.text, given.tone)]
    /\ UNCHANGED <<terms, hist, given, nm>>

\* build_names(chinese, foreign) runs.
BuildNames ==
    /\ given.fn = "build_names" /\ last = NoCall
    /\ last' = [NoCall EXCEPT !.op = "build_names",
                              !.ret = build_names(given.chinese, given.foreign)]
    /\ UNCHANGED <<terms, hist, given, nm>>

\* wikilink(title, text, force=force) runs.
WikilinkCall ==
    /\ given.fn = "wikilink" /\ last = NoCall
    /\ last' = [NoCall EXCEPT !.op = "wikilink",
                              !.ret = wikilink(given.title, given.text, given.force)]
    /\ UNCHANGED <<terms, hist, given, nm>>

\* chinese_punctation_join(items, punct, start, end) runs.
JoinCall ==
    /\ given.fn = "chinese_punctation_join" /\ last = NoCall
    /\ last' = [NoCall EXCEPT !.op = "chinese_punctation_join",
                              !.ret = chinese_punctation_join(given.items, given.punct,
                                                              given.start, given.end)]
    /\ UNCHANGED <<terms, hist, given, nm>>

NextUtils == ToRomaji \/ ToPinyin \/ BuildNames \/ WikilinkCall \/ JoinCall

SpecUtils == InitUtils /\ [][NextUtils]_vars

\* ------------------------------------- properties of the pure functions

\* The particle table as the documentation gives it.
ParticleTable ==
    {<<(<<"o", "b", "u">>), (<<"o", "b", "u">>)>>,
     <<(<<"h", "e">>), (<<"e">>)>>,
     <<(<<"g", "a">>), (<<"g", "a">>)>>,
     <<(<<"n", "o">>), (<<"n", "o">>)>>,
     <<(<<"w", "o">>), (<<"o">>)>>,
     <<(<<"t", "o">>), (<<"t", "o">>)>>,
     <<(<<"h", "a">>), (<<"w", "a">>)>>}
\* What a word with the stripped romanization h becomes.
ParticleOrCapitalized(h) ==
    IF \E p \in ParticleTable : p[1] = h
    THEN (CHOOSE p \in ParticleTable : p[1] = h)[2]
    ELSE [i \in DOMAIN h |-> IF i = 1 THEN upper(h[i]) ELSE lower(h[i])]
RECURSIVE ParticleWords(_)
ParticleWords(words) ==
    IF words = <<>> THEN <<>>
    ELSE (IF strip(Head(words)) = <<>> THEN <<>>
          ELSE <<ParticleOrCapitalized(strip(Head(words)))>>)
             \o ParticleWords(Tail(words))

\* C11: to_romaji emits, for each segmented word, the particle-table value
\* when the stripped romanization as it stands is a key of the table, and
\* otherwise the romanization with its first letter capitalized and the rest
\* lower-cased.
RomajiParticlesByTable ==
    last.op = "to_romaji" =>
        last.ret = join(ParticleWords(kakasi_convert(given.text)))
\* A particle, and the same letters capitalized which are no key.
RomajiParticlesByTableWitness ==
    /\ last.op = "to_romaji"
    /\ given.text = <<"h", "e", " ", "H", "e">>
    /\ last.ret = <<"e", " ", "H", "e">>

\* C12: the output of to_romaji has no empty word: it neither starts nor
\* ends with the separator and has no doubled separator.
RomajiNoEmptyWord ==
    last.op = "to_romaji" =>
        LET r == last.ret IN
        /\ r # <<>> => r[1] # " " /\ r[Len(r)] # " "
        /\ \A i \in 1..(Len(r) - 1) : ~(r[i] = " " /\ r[i + 1] = " ")
\* A text that starts with a blank segment and has a doubled space.
RomajiNoEmptyWordWitness ==
    /\ last.op = "to_romaji"
    /\ given.text = <<" ", " ", "he_k">>
    /\ last.ret = <<"e">>

\* The number of space-separated pieces of a string.
Pieces(s) == 1 + Cardinality({i \in DOMAIN s : s[i] = " "})

TemplateField(key, value) == <<"|">> \o key \o <<"=">> \o value

\* C14: Name.efn is None exactly when lang is 'zh'; otherwise it is the efn
\* footnote around a langx template with lang and name, then translit= if and
\* only if translit differs from name, then lit= if and only if lit is a
\* non-empty string, then italic=yes if and only if lang is 'en'.
EfnShape ==
    last.op = "efn" =>
        /\ (last.ret = None) <=> (nm.lang = <<"z", "h">>)
        /\ nm.lang # <<"z", "h">> =>
              last.ret =
                  <<"{", "{", "e", "f", "n", "|">>
                  \o <<"{", "{", "l", "a", "n", "g", "x", "|">>
                  \o nm.lang \o <<"|">> \o nm.name
                  \o (IF nm.translit = nm.name THEN <<>>
                      ELSE TemplateField(<<"t", "r", "a", "n", "s", "l", "i", "t">>,
                                         nm.translit))
                  \o (IF nm.lit = None \/ nm.lit = <<>> THEN <<>>
                      ELSE TemplateField(<<"l", "i", "t">>, nm.lit))
                  \o (IF nm.lang = <<"e", "n">>
                      THEN TemplateField(<<"i", "t", "a", "l", "i", "c">>,
                                         <<"y", "e", "s">>)
                      ELSE <<>>)
                  \o <<"}", "}">> \o <<"}", "}">>
\* A Korean name with a transliteration and a literal translation: a footnote
\* with both fields and no italic field.
EfnShapeWitness ==
    /\ last.op = "efn"
    /\ nm.lang = <<"k", "o">> /\ nm.translit # nm.name /\ nm.lit = <<"l">>
    /\ last.ret # None
    /\ Len(last.ret) = Len(nm.name) + Len(nm.translit) + 37

\* The footnote of a foreign name, with or without its transliteration.
Footnote(foreign, translit) ==
    <<"{", "{", "e", "f", "n", "|", "{", "{", "l", "a", "n", "g", "x", "|">>
    \o foreign.lang \o <<"|">> \o foreign.name
    \o (IF translit /\ foreign.translit # foreign.name
        THEN TemplateField(<<"t", "r", "a", "n", "s", "l", "i", "t">>,
                           foreign.translit)
        ELSE <<>>)
    \o (IF foreign.lit = None \/ foreign.lit = <<>> THEN <<>>
        ELSE TemplateField(<<"l", "i", "t">>, foreign.lit))
    \o (IF foreign.lang = <<"e", "n">>
        THEN TemplateField(<<"i", "t", "a", "l", "i", "c">>, <<"y", "e", "s">>)
        ELSE <<>>)
    \o <<"}", "}", "}", "}">>
\* The main name that build_names bolds.
MainName(chinese, foreign) ==
    IF chinese.kind = "str" /\ chinese.val # <<>> THEN chinese.val
    ELSE IF chinese.kind = "Name" THEN chinese.val.name
    ELSE IF foreign.kind = "Name"
    THEN (IF foreign.val.translit # <<>> THEN foreign.val.translit
          ELSE foreign.val.name)
    ELSE PAGENAME
Parenthesised(s) == <<"paren_l">> \o s \o <<"paren_r">>

\* C15: build_names returns the bolded main name in book-title marks,
\* followed by nothing when foreign is None or its name title-cased equals
\* the main name title-cased, by the parenthesised footnote without translit
\* when its translit title-cased equals the main name title-cased, and by the
\* parenthesised full footnote otherwise.
BuildNamesReturnsString ==
    last.op = "build_names" =>
        LET c == given.chinese
            f == given.foreign
            main == MainName(c, f)
        IN  last.ret =
                <<"shu_l", "'", "'", "'">> \o main \o <<"'", "'", "'", "shu_r">>
                \o (IF f.kind = "None" \/ title(f.val.name) = title(main)
                    THEN <<>>
                    ELSE IF title(f.val.translit) = title(main)
                    THEN Parenthesised(Footnote(f.val, FALSE))
                    ELSE Parenthesised(Footnote(f.val, TRUE)))

\* The title a string stands for: underscores as spaces, leading colons and
\* spaces and trailing spaces dropped, the first character lower-cased,
\* Traditional characters as Simplified.
TitleOf(s) ==
    LET t == rstrip(lstrip(replace(s, "_", " "), {":", " "})) IN
    hans([i \in DOMAIN t |-> IF i = 1 THEN lower(t[i]) ELSE t[i]])

\* C16: wikilink returns the link of title and text as given when force is
\* True, the link of the title with underscores as spaces when text is None,
\* the link of text alone when title and text are the same title, and the
\* link of title and text otherwise.
WikilinkForms ==
    last.op = "wikilink" =>
        LET t == given.title
            x == given.text
            Link(a) == <<"[", "[">> \o a \o <<"]", "]">>
            Piped(a, b) == <<"[", "[">> \o a \o <<"|">> \o b \o <<"]", "]">>
        IN  last.ret =
                IF given.force THEN (IF x = None THEN Link(t) ELSE Piped(t, x))
                ELSE IF x = None THEN Link(replace(t, "_", " "))
                ELSE IF TitleOf(t) = TitleOf(x) THEN Link(x)
                ELSE Piped(t, x)

\* C17: chinese_punctation_join returns the empty string when no item is
\* truthy, and otherwise the truthy items in order, joined by the mark that
\* punct selects, between start and end.
JoinDropsFalsy ==
    last.op = "chinese_punctation_join" =>
        LET kept == SelectSeq(given.items, LAMBDA i : i # None /\ i # <<>>)
            mark == CASE given.punct = "period" -> "juhao"
                      [] given.punct = "semicolon" -> "fenhao"
                      [] given.punct = "comma" -> "douhao"
                      [] given.punct = "semi-comma" -> "dunhao"
            affix(a) == IF a = None THEN <<>> ELSE a
        IN  last.ret =
                IF kept = <<>> THEN <<>>
                ELSE affix(given.start) \o join_by(mark, kept) \o affix(given.end)

\* C19: a Term is marked linked only if an earlier text() call on it returned
\* a link form; a text(link=True) call that raises while the link is built
\* leaves the Term unmarked.
LinkedOnlyAfterLink ==
    \A id \in TermIds : terms[id]._linked => hist[id].links >= 1

\* C18: in every document, the first text(link=True) call on a term of the
\* registries, which has an article, returns the link form.
FirstLinkInDocumentReturnsLink ==
    (last.op = "text" /\ last.firstInDoc /\ last.pre.article # None)
        => IsLink(last.ret)

\* C20: a call on one Term leaves every field of every other Term, the
\* linked flag among them, as it was, also when the terms have the same
\* article and when they are GenreTerm or YearTerm instances.
OtherTermsUntouched ==
    [][\A b \in TermIds : b # last'.id => terms'[b] = terms[b]]_vars
\* A Term has just returned its link and is linked; a GenreTerm with the
\* same article is still unlinked.
OtherTermsUntouchedWitness ==
    /\ last.op = "text" /\ last.id = "t1" /\ IsLink(last.ret)
    /\ terms["t1"]._linked /\ ~terms["t2"]._linked
    /\ terms["t1"].article = terms["t2"].article
    /\ terms["t1"].head = <<"xi_t">>
    /\ terms["t2"].modifier = <<"xi_t">> /\ terms["t2"].stub # None

\* C21: once a Name is constructed, no read of italic or efn changes lang,
\* name, translit, sortkey or lit, and every read of efn returns the value
\* that the constructed Name gives, however many reads came before.
NameFixedAtConstruction ==
    [][nm # NoName =>
          /\ nm' = nm
          /\ last'.op = "efn" =>
                last'.ret = efn(Name__init__(given.lang, given.name,
                                             given.translit, given.sortkey,
                                             given.lit))]_vars
\* A Japanese name whose transliteration was derived in the constructor,
\* after a read of efn that shows it.
NameFixedAtConstructionWitness ==
    /\ last.op = "efn" /\ last.ret # None
    /\ nm.lang = JA /\ given.translit = None /\ given.sortkey = None
    /\ nm.translit # nm.name /\ nm.translit # <<>>
    /\ nm.sortkey = title(nm.translit)

====
